---- MODULE Spec2Model ----
(***************************************************************************)
(* The REST facade of terait-backend/api: JWT login/register, the          *)
(* verifyToken middleware and the employee / attendance routes over the    *)
(* Firebase Realtime Database.                                             *)
(*                                                                         *)
(* The repository holds two copies of the routes.  They differ in three    *)
(* expressions: the older copy (api/index.js) drops the index after        *)
(* Object.keys(userData), after authorization.split(' ') and after         *)
(* toISOString().split('T').  The variable `variant` says which copy is    *)
(* deployed; it never changes.                                             *)
(*                                                                         *)
(* Environment: every call to the store resolves (no network failure), so  *)
(* the catch blocks are entered only by exceptions the handler's own code  *)
(* raises.  The unauthenticated /api/save and /api/load routes are not     *)
(* part of this model.                                                     *)
(***************************************************************************)
EXTENDS Integers, Sequences, FiniteSets, TLC

VARIABLES variant, now, users, employees, attendance, nextKey, pending, issued, last

vars == <<variant, now, users, employees, attendance, nextKey, pending, issued, last>>

\* ---------------------------------------------------------------- bounds
MaxNow == 2          \* the clock stops ticking here
TicksPerDay == 2     \* clock ticks in one calendar day
MaxUsers == 2        \* push() keys handed out under users/
MaxEmployees == 2    \* push() keys handed out under employees/
MaxInflight == 2     \* Register requests suspended on their write
MaxTokens == 1       \* distinct tokens kept for clients to present

\* ---------------------------------------------------------------- values
Variants == {"index", "part_000"}

Missing == "<undefined>"     \* a field absent from the JSON body

\* a presence test that lets everything through
NeverFalsy(v) == FALSE

\* !v for a string or undefined
Falsy(v) == v \in {Missing, ""}

JWT_SECRET == "env.JWT_SECRET"

\* expiresIn: '24h'
ExpiresIn == TicksPerDay

\* a JS value that is either one string or an array of strings
JsStr(k) == [isArray |-> FALSE, v |-> <<k>>]
JsArr(ks) == [isArray |-> TRUE, v |-> ks]

\* The keys of a store node in storage order (push keys grow with time).
RECURSIVE KeysOf(_)
KeysOf(S) ==
    IF S = {} THEN <<>>
    ELSE LET m == CHOOSE x \in S : \A y \in S : x <= y
         IN <<m>> \o KeysOf(S \ {m})

\* new Date().toISOString(): "YYYY-MM-DD" "T" "HH:MM:SS.sssZ"
ToISOString(t) == [date |-> t \div TicksPerDay, time |-> t % TicksPerDay]

\* String.prototype.split('T') on an ISO timestamp
SplitT(iso) == <<[kind |-> "date", n |-> iso.date], [kind |-> "time", n |-> iso.time]>>

\* One space-separated word of a header: plain text, or the text of a JWT.
Word(text) == [text |-> text, jwt |-> <<>>]
JwtWord(tok) == [text |-> "jwt", jwt |-> <<tok>>]

\* ---------------------------------------------------------------- jsonwebtoken
SignatureOf(payload, iat, exp, secret) == [key |-> secret, over |-> <<payload, iat, exp>>]

\* jwt.sign(payload, secret, {expiresIn: '24h'})
JwtSign(payload, secret, t) ==
    [payload |-> payload, iat |-> t, exp |-> t + ExpiresIn,
     sig |-> SignatureOf(payload, t, t + ExpiresIn, secret)]

\* jwt.verify(token, secret): the decoded claims, or a throw
JwtVerify(arg, secret, t) ==
    IF arg.isArray THEN [ok |-> FALSE, error |-> "jwt must be a string"]
    ELSE IF arg.v[1].jwt = <<>> THEN [ok |-> FALSE, error |-> "jwt malformed"]
    ELSE LET tok == arg.v[1].jwt[1] IN
         IF tok.sig # SignatureOf(tok.payload, tok.iat, tok.exp, secret)
         THEN [ok |-> FALSE, error |-> "invalid signature"]
         ELSE IF t >= tok.exp
         THEN [ok |-> FALSE, error |-> "jwt expired"]
         ELSE [ok |-> TRUE, decoded |-> tok.payload]


\* A token whose payload was edited after signing.
Tamper(tok) == [tok EXCEPT !.payload.role = "root"]

\* ---------------------------------------------------------------- requests
\* req.headers.authorization: absent, or the words of the header string
NoHeader == [present |-> FALSE, parts |-> <<>>]
Header(parts) == [present |-> TRUE, parts |-> parts]
Bearer(tok) == Header(<<Word("Bearer"), JwtWord(tok)>>)

\* String.prototype.split(' ') on the header
SplitSpace(header) == header.parts

Undefined == [defined |-> FALSE, isArray |-> FALSE, v |-> <<>>]
Defined(x) == [defined |-> TRUE, isArray |-> x.isArray, v |-> x.v]

\* req.headers.authorization?.split(' ')[1]   (api/index.js drops the [1])
ExtractToken(header) ==
    IF ~header.present THEN Undefined
    ELSE IF variant = "index" THEN Defined(JsArr(SplitSpace(header)))
    ELSE IF Len(SplitSpace(header)) >= 2 THEN Defined(JsStr(SplitSpace(header)[2]))
    ELSE Undefined

\* What a finished request leaves behind: its answer, and what ran to
\* produce it.  status/body are those of the first response sent.
Response(route, req, status, body, gate, handler, storeOps, responses, user) ==
    [route |-> route, req |-> req, at |-> now, status |-> status, body |-> body,
     gate |-> gate, handler |-> handler, storeOps |-> storeOps,
     responses |-> responses, user |-> user]

NoResponse == Response("none", [none |-> TRUE], 0, [none |-> TRUE], "none", 0, 0, 0, <<>>)

Answer(status, body) == [status |-> status, body |-> body]

\* a middleware that answers 401 and calls next() all the same
VerifyThenNext(header, t) ==
    [sent |-> <<Answer(401, [error |-> "No token provided"])>>, next |-> TRUE, user |-> <<>>]

\* const verifyToken = (req, res, next) => ...
\* sent: the responses the middleware wrote; next: whether it called next();
\* user: req.user as it leaves the middleware.
VerifyToken(header, t) ==
    LET token == ExtractToken(header) IN
    IF ~token.defined
    THEN [sent |-> <<Answer(401, [error |-> "No token provided"])>>, next |-> FALSE,
          user |-> <<>>]
    ELSE LET r == JwtVerify(token, JWT_SECRET, t) IN
         IF r.ok
         THEN [sent |-> <<>>, next |-> TRUE, user |-> <<r.decoded>>]
         ELSE [sent |-> <<Answer(401, [error |-> "Invalid token"])>>, next |-> FALSE,
               user |-> <<>>]

\* app.<method>(path, verifyToken, handler): the handler runs when the
\* middleware calls next(), and answers with status/body after storeOps calls
\* to the store.
Protected(route, req, g, status, body, storeOps) ==
    LET sent == g.sent \o (IF g.next THEN <<Answer(status, body)>> ELSE <<>>)
    IN Response(route, req,
                IF sent = <<>> THEN 0 ELSE sent[1].status,
                IF sent = <<>> THEN [none |-> TRUE] ELSE sent[1].body,
                IF g.sent = <<>> THEN "passed" ELSE "rejected",
                IF g.next THEN 1 ELSE 0,
                IF g.next THEN storeOps ELSE 0,
                Len(sent), g.user)

\* Clients keep the tokens they are sent, the MaxTokens latest of them.
Keep(tok) ==
    IF tok \in issued \/ Cardinality(issued) < MaxTokens THEN issued \cup {tok}
    ELSE LET oldest == CHOOSE o \in issued : \A x \in issued : o.exp <= x.exp
         IN (issued \ {oldest}) \cup {tok}

\* The Authorization headers a client can send.
Headers ==
    {NoHeader, Header(<<Word("Bearer")>>)}
    \cup {Bearer(tok) : tok \in issued}
    \cup {Bearer(Tamper(tok)) : tok \in issued}

\* ---------------------------------------------------------------- store
\* ref.push(): a key no child of the collection has had
NewKey(collection) == nextKey[collection]
\* ref.set(value) at a child key
SetAt(node, key, value) ==
    [k \in DOMAIN node \cup {key} |-> IF k = key THEN value ELSE node[k]]

\* a query that finds nothing
NoneByEmail(email) == {}

\* usersRef.orderByChild('email').equalTo(email).once('value')
ByEmail(email) == {k \in DOMAIN users : users[k].email = email}

\* ---------------------------------------------------------------- login
\* Object.keys(userData)[0]   (api/index.js drops the [0])
LoginUserId(keys) == IF variant = "index" THEN JsArr(keys) ELSE JsStr(keys[1])

\* userData[userId]: an array used as a property name is its elements joined
\* by ",", which names a child only when the array has one element
HasChild(userId) == Len(userId.v) = 1

\* app.post('/api/login', ...)
LoginResult(email, password) ==
    LET req == [email |-> email, password |-> password]
        R(status, body, ops) == Response("login", req, status, body, "none", 1, ops, 1, <<>>)
    IN
    IF Falsy(email) \/ Falsy(password)
    THEN R(400, [error |-> "Email and password required"], 0)
    ELSE IF ByEmail(email) = {}
    THEN R(401, [error |-> "Invalid credentials"], 1)
    ELSE LET userId == LoginUserId(KeysOf(ByEmail(email))) IN
         IF ~HasChild(userId)
         THEN R(500, [error |-> "Login failed",
                      details |-> "Cannot read properties of undefined"], 1)
         ELSE LET user == users[userId.v[1]] IN
              IF user.password # password
              THEN R(401, [error |-> "Invalid credentials"], 1)
              ELSE R(200,
                     [success |-> TRUE,
                      token |-> JwtSign([userId |-> userId, email |-> user.email,
                                         role |-> user.role], JWT_SECRET, now),
                      user |-> [id |-> userId, email |-> user.email,
                                name |-> user.name, role |-> user.role]],
                     1)

Login(email, password) ==
    LET r == LoginResult(email, password) IN
    /\ last' = r
    /\ issued' = IF r.status = 200 THEN Keep(r.body.token) ELSE issued
    /\ UNCHANGED <<variant, now, users, employees, attendance, nextKey, pending>>

\* ---------------------------------------------------------------- register
\* a register that keeps the role as it came
RoleAsSent(role) == role

\* role || 'user'
RoleOrDefault(role) == IF Falsy(role) THEN "user" ELSE role

\* app.post('/api/register', ...) up to the await of newUserRef.set(...):
\* the presence check, the existence query, and either a 400 answer or the
\* request suspended with its write in flight.
RegisterQuery(email, password, name, role) ==
    LET req == [email |-> email, password |-> password, name |-> name, role |-> role]
        R(status, body, ops) == Response("register", req, status, body, "none", 1, ops, 1, <<>>)
    IN
    /\ IF Falsy(email) \/ Falsy(password) \/ Falsy(name)
       THEN /\ last' = R(400, [error |-> "Email, password, and name required"], 0)
            /\ UNCHANGED pending
       ELSE IF ByEmail(email) # {}
       THEN /\ last' = R(400, [error |-> "User already exists"], 1)
            /\ UNCHANGED pending
       ELSE /\ Len(pending) < MaxInflight
            /\ nextKey["users"] + Len(pending) <= MaxUsers
            /\ pending' = Append(pending, req)
            /\ UNCHANGED last
    /\ UNCHANGED <<variant, now, users, employees, attendance, nextKey, issued>>

\* The record newUserRef.set(...) writes.
NewUser(req, t) ==
    [email |-> req.email, password |-> req.password, name |-> req.name,
     role |-> RoleOrDefault(req.role), createdAt |-> ToISOString(t)]

\* The token Register signs.
RegisterToken(req, userId, t) ==
    JwtSign([userId |-> JsStr(userId), email |-> req.email,
             role |-> RoleOrDefault(req.role)], JWT_SECRET, t)

RemoveAt(s, i) == [j \in 1..(Len(s) - 1) |-> IF j < i THEN s[j] ELSE s[j + 1]]

\* app.post('/api/register', ...) from usersRef.push() on: the write of the
\* suspended request i reaches the store and the request is answered.
RegisterWrite(i) ==
    /\ i \in 1..Len(pending)
    /\ LET req == pending[i]
           userId == NewKey("users")
           token == RegisterToken(req, userId, now)
       IN /\ users' = SetAt(users, userId, NewUser(req, now))
          /\ nextKey' = [nextKey EXCEPT !["users"] = @ + 1]
          /\ pending' = RemoveAt(pending, i)
          /\ issued' = Keep(token)
          /\ last' = Response("register", req, 200,
                        [success |-> TRUE, token |-> token,
                         user |-> [id |-> JsStr(userId), email |-> req.email,
                                   name |-> req.name, role |-> RoleOrDefault(req.role)]],
                        "none", 1, 2, 1, <<>>)
    /\ UNCHANGED <<variant, now, employees, attendance>>

\* ---------------------------------------------------------------- employees
\* snapshot.forEach(child => list.push({id: child.key, ...child.val()})):
\* a stored field named "id" replaces the key in the entry
Entry(key, val) ==
    [f \in {"id"} \cup DOMAIN val |-> IF f \in DOMAIN val THEN val[f] ELSE key]

\* The array a GET route answers with: one entry per child, in key order.
Listing(node) ==
    LET keys == KeysOf(DOMAIN node)
    IN [i \in 1..Len(keys) |-> Entry(keys[i], node[keys[i]])]

\* app.get('/api/employees', verifyToken, ...)
GetEmployees(header) ==
    LET req == [header |-> header]
        g == VerifyToken(header, now)
    IN /\ last' = Protected("getEmployees", req, g, 200, [list |-> Listing(employees)], 1)
       /\ UNCHANGED <<variant, now, users, employees, attendance, nextKey, pending, issued>>

\* The record newEmployeeRef.set(...) writes.
NewEmployee(body, t) ==
    [name |-> body.name, email |-> body.email, role |-> body.role,
     department |-> body.department, createdAt |-> ToISOString(t)]

\* app.post('/api/employees', verifyToken, ...)
PostEmployee(header, body) ==
    LET req == [header |-> header, body |-> body]
        g == VerifyToken(header, now)
        id == NewKey("employees")
    IN /\ g.next => nextKey["employees"] <= MaxEmployees
       /\ employees' = IF g.next THEN SetAt(employees, id, NewEmployee(body, now))
                       ELSE employees
       /\ nextKey' = IF g.next THEN [nextKey EXCEPT !["employees"] = @ + 1] ELSE nextKey
       /\ last' = Protected("postEmployee", req, g, 200,
                            [success |-> TRUE, id |-> id, message |-> "Employee created"], 1)
       /\ UNCHANGED <<variant, now, users, attendance, pending, issued>>

\* The value at a child of a collection; a node without fields does not exist.
ValueAt(node, key) == IF key \in DOMAIN node THEN node[key] ELSE <<>>

\* an update that replaces the value at the path
Replace(old, values) == values

\* ref.update(values): the fields of values written over the value at the path
Merge(old, values) ==
    [f \in DOMAIN old \cup DOMAIN values |-> IF f \in DOMAIN values THEN values[f] ELSE old[f]]

UpdateAt(node, key, values) ==
    IF DOMAIN Merge(ValueAt(node, key), values) = {} THEN node
    ELSE SetAt(node, key, Merge(ValueAt(node, key), values))

\* ref.remove(): the child is gone; nothing happens when there is none
DeleteAt(node, key) == [k \in DOMAIN node \ {key} |-> node[k]]

\* app.put('/api/employees/:id', verifyToken, ...)
PutEmployee(header, id, updateData) ==
    LET req == [header |-> header, id |-> id, body |-> updateData]
        g == VerifyToken(header, now)
    IN /\ employees' = IF g.next THEN UpdateAt(employees, id, updateData) ELSE employees
       /\ last' = Protected("putEmployee", req, g, 200,
                            [success |-> TRUE, message |-> "Employee updated"], 1)
       /\ UNCHANGED <<variant, now, users, attendance, nextKey, pending, issued>>

\* app.delete('/api/employees/:id', verifyToken, ...)
DeleteEmployee(header, id) ==
    LET req == [header |-> header, id |-> id]
        g == VerifyToken(header, now)
    IN /\ employees' = IF g.next THEN DeleteAt(employees, id) ELSE employees
       /\ last' = Protected("deleteEmployee", req, g, 200,
                            [success |-> TRUE, message |-> "Employee deleted"], 1)
       /\ UNCHANGED <<variant, now, users, attendance, nextKey, pending, issued>>

\* ---------------------------------------------------------------- attendance
\* a key that is the whole clock value
TimeAsKey(t) == JsStr([kind |-> "date", n |-> t])

\* now.toISOString().split('T')[0]   (api/index.js drops the [0])
DateKey(t) ==
    IF variant = "index" THEN JsArr(SplitT(ToISOString(t)))
    ELSE JsStr(SplitT(ToISOString(t))[1])

\* db.ref(path) throws when the path holds a "."; the time of day
\* "HH:MM:SS.sssZ" does, and an array in a template string is all its
\* elements joined by ","
ValidPath(dateKey) == \A i \in 1..Len(dateKey.v) : dateKey.v[i].kind # "time"

\* app.get('/api/attendance/:employeeId', verifyToken, ...)
GetAttendance(header, employeeId) ==
    LET req == [header |-> header, employeeId |-> employeeId]
        g == VerifyToken(header, now)
    IN /\ last' = Protected("getAttendance", req, g, 200,
                            [list |-> Listing(ValueAt(attendance, employeeId))], 1)
       /\ UNCHANGED <<variant, now, users, employees, attendance, nextKey, pending, issued>>

\* The attendance node after the handler's set() at employeeId/dateKey.
Logged(employeeId, dateKey, timeKey) ==
    SetAt(attendance, employeeId,
          SetAt(ValueAt(attendance, employeeId), dateKey.v[1].n,
                [loginTime |-> timeKey, status |-> "present"]))

\* app.post('/api/attendance/login', verifyToken, ...)
PostAttendance(header, employeeId) ==
    LET req == [header |-> header, employeeId |-> employeeId]
        g == VerifyToken(header, now)
        dateKey == DateKey(now)
        timeKey == ToISOString(now)
    IN /\ attendance' = IF g.next /\ ValidPath(dateKey)
                        THEN Logged(employeeId, dateKey, timeKey)
                        ELSE attendance
       /\ last' = IF ValidPath(dateKey)
                  THEN Protected("postAttendance", req, g, 200,
                                 [success |-> TRUE, message |-> "Login recorded"], 1)
                  ELSE Protected("postAttendance", req, g, 500,
                                 [error |-> "Failed to log attendance"], 0)
       /\ UNCHANGED <<variant, now, users, employees, nextKey, pending, issued>>

\* ---------------------------------------------------------------- clock
Tick ==
    /\ now < MaxNow
    /\ now' = now + 1
    /\ UNCHANGED <<variant, users, employees, attendance, nextKey, pending, issued, last>>

\* ---------------------------------------------------------------- specification
Emails == {"ana@x.com", "bo@x.com"}
Passwords == {"pw1", "pw2"}
Names == {"Ana"}
RoleIn == {Missing, "", "admin"}

\* The JSON bodies sent to /api/login: every complete one, and one for each
\* way of being incomplete.
LoginBodies ==
    {<<e, p>> : e \in Emails, p \in Passwords}
    \cup {<<Missing, "pw1">>, <<"ana@x.com", "">>}

\* The JSON bodies sent to /api/register, likewise.
RegisterBodies ==
    {<<e, p, n, r>> : e \in Emails, p \in Passwords, n \in Names, r \in RoleIn}
    \cup {<<Missing, "pw1", "Ana", Missing>>, <<"ana@x.com", "", "Ana", Missing>>,
          <<"ana@x.com", "pw1", Missing, "admin">>}

Init ==
    /\ variant \in Variants
    /\ now = 0
    /\ users = <<>>
    /\ employees = <<>>
    /\ attendance = <<>>
    /\ nextKey = [users |-> 1, employees |-> 1]
    /\ pending = <<>>
    /\ issued = {}
    /\ last = NoResponse

NextAuth ==
    \/ \E b \in LoginBodies : Login(b[1], b[2])
    \/ \E b \in RegisterBodies : RegisterQuery(b[1], b[2], b[3], b[4])
    \/ \E i \in 1..MaxInflight : RegisterWrite(i)

SpecAuth == Init /\ [][NextAuth]_vars

\* One account, for the specifications that study the protected routes.
TheAccount == <<"ana@x.com", "pw1", "Ana", "admin">>

EmployeeBodies ==
    {[name |-> "Ana", email |-> "ana@x.com", role |-> "tech", department |-> "ops"],
     [name |-> "Bo", email |-> "bo@x.com", role |-> "lead", department |-> "hr"]}

\* Partial payloads of PUT /api/employees/:id.
UpdateBodies == {<<>>, [department |-> "lab", role |-> "chief"]}

\* The ids a client can name: every key push() has handed out so far, and 0,
\* which it never hands out.
EmployeeIds == 0..(nextKey["employees"] - 1)

AttendanceIds == {"emp1", "emp2"}

\* The account is registered by one request at a time.
SignUp ==
    \/ pending = <<>> /\ RegisterQuery(TheAccount[1], TheAccount[2], TheAccount[3], TheAccount[4])
    \/ RegisterWrite(1)

SignIn == Login(TheAccount[1], TheAccount[2])

\* The headers of a client that sends its token unchanged or sends none.
PlainHeaders == {NoHeader} \cup {Bearer(tok) : tok \in issued}

NextEmployees ==
    \/ SignUp
    \/ \E h \in PlainHeaders : GetEmployees(h)
    \/ \E h \in PlainHeaders, b \in EmployeeBodies : PostEmployee(h, b)
    \/ \E h \in PlainHeaders, id \in EmployeeIds, b \in UpdateBodies : PutEmployee(h, id, b)
    \/ \E h \in PlainHeaders, id \in EmployeeIds : DeleteEmployee(h, id)

SpecEmployees == Init /\ [][NextEmployees]_vars

NextAttendance ==
    \/ SignUp
    \/ Tick
    \/ \E h \in Headers, id \in AttendanceIds : GetAttendance(h, id)
    \/ \E h \in Headers, id \in AttendanceIds : PostAttendance(h, id)

SpecAttendance == Init /\ [][NextAttendance]_vars

\* Every protected route, each with one request body; one employee is created,
\* and it is the one updated and deleted.
NextGate ==
    \/ SignUp
    \/ SignIn
    \/ Tick
    \/ \E h \in Headers : GetEmployees(h)
    \/ /\ nextKey["employees"] = 1
       /\ \E h \in Headers : PostEmployee(h, [name |-> "Ana", email |-> "ana@x.com",
                                              role |-> "tech", department |-> "ops"])
    \/ \E h \in Headers, id \in EmployeeIds \ {0} : PutEmployee(h, id, [department |-> "lab"])
    \/ \E h \in Headers, id \in EmployeeIds \ {0} : DeleteEmployee(h, id)
    \/ \E h \in Headers : GetAttendance(h, "emp1")
    \/ \E h \in Headers : PostAttendance(h, "emp1")

SpecGate == Init /\ [][NextGate]_vars

\* ================================================================ properties
ProtectedRoutes ==
    {"getEmployees", "postEmployee", "putEmployee", "deleteEmployee",
     "getAttendance", "postAttendance"}

\* The token of a header of the form "Bearer <jwt>", as a sequence of 0 or 1.
TokenIn(header) ==
    IF header.present /\ Len(header.parts) = 2 /\ header.parts[1] = Word("Bearer")
    THEN header.parts[2].jwt
    ELSE <<>>

\* Signed by this server with the payload it now carries.
Genuine(tok) == tok.sig = SignatureOf(tok.payload, tok.iat, tok.exp, JWT_SECRET)

\* The request carried a token issued by Login or Register and not yet expired.
FreshToken(header, t) ==
    /\ TokenIn(header) # <<>>
    /\ Genuine(TokenIn(header)[1])
    /\ t < TokenIn(header)[1].exp

\* The request carried a token that has expired or was altered after signing.
StaleToken(header, t) ==
    /\ TokenIn(header) # <<>>
    /\ ~Genuine(TokenIn(header)[1]) \/ t >= TokenIn(header)[1].exp

\* C1: on every protected route a request without an Authorization header is
\* answered 401, a request with an expired or tampered token is answered 401,
\* and a request with "Bearer <token>" for an unexpired token from Login or
\* Register passes the gate, the handler runs and answers with success.
C1_ProtectedRoutes ==
    last.route \in ProtectedRoutes =>
        /\ ~last.req.header.present => last.status = 401
        /\ StaleToken(last.req.header, last.at) => last.status = 401
        /\ FreshToken(last.req.header, last.at) =>
               last.gate = "passed" /\ last.handler = 1 /\ last.status = 200

\* A complete login body.
LoginComplete(req) == ~Falsy(req.email) /\ ~Falsy(req.password)

\* C2: for every user record with email e and password p, login with (e, p)
\* succeeds with a token for that user, and login with (e, q), q non-empty and
\* different from p, is answered 401 without a token.
C2_LoginByStoredPassword ==
    (last.route = "login" /\ LoginComplete(last.req)) =>
        \A k \in DOMAIN users :
            users[k].email = last.req.email =>
                IF users[k].password = last.req.password
                THEN /\ last.status = 200
                     /\ last.body.success
                     /\ last.body.token.payload.email = last.req.email
                     /\ \E i \in 1..Len(last.body.token.payload.userId.v) :
                            last.body.token.payload.userId.v[i] = k
                ELSE /\ last.status = 401
                     /\ "token" \notin DOMAIN last.body

\* A register request that was answered with success.
Registered(r) == r.route = "register" /\ r.status = 200

\* What jwt.verify makes of the token of a register response.
Decoded(r) == JwtVerify(JsStr(JwtWord(r.body.token)), JWT_SECRET, r.at)

\* The record and the token of a successful register, with the role they hold.
RegisteredWith(r, role) ==
    LET k == r.body.user.id.v[1] IN
    /\ ~r.body.user.id.isArray
    /\ k \in DOMAIN users
    /\ users[k].email = r.req.email
    /\ users[k].password = r.req.password
    /\ users[k].name = r.req.name
    /\ users[k].role = role
    /\ Decoded(r).ok
    /\ Decoded(r).decoded.email = r.req.email
    /\ Decoded(r).decoded.role = role
    /\ Decoded(r).decoded.userId = JsStr(k)

\* C3 as stated: a successful register stores the email, password and name
\* sent and the role sent ("user" when the body has no role), and its token
\* decodes to that email, that role and the key of the record.
C3_RoleAsSupplied ==
    Registered(last) =>
        RegisteredWith(last, IF last.req.role = Missing THEN "user" ELSE last.req.role)

\* A register step that answers: the request is complete and its email is
\* new, so it is not refused.
RegisterNotRefused ==
    (last'.route = "register" /\ last'.status # 200) =>
        \/ Falsy(last'.req.email) \/ Falsy(last'.req.password) \/ Falsy(last'.req.name)
        \/ \E k \in DOMAIN users : users[k].email = last'.req.email

\* A register step that succeeds adds one record under a key no record had.
RegisterAddsOne ==
    (Registered(last') /\ users' # users) =>
        /\ last'.body.user.id.v[1] \notin DOMAIN users
        /\ DOMAIN users' = DOMAIN users \cup {last'.body.user.id.v[1]}
        /\ \A k \in DOMAIN users : users'[k] = users[k]

\* C3 (amended): a register with non-empty email, password and name whose
\* email is new is not refused; when it succeeds exactly one record is added
\* under a new key, holding the email, password and name sent and the role sent
\* when that is a non-empty string, "user" when the role is absent or empty;
\* the token decodes to that email, that role and the key of the new record.
C3_Register ==
    /\ [](Registered(last) =>
            RegisteredWith(last, IF last.req.role \in {Missing, ""} THEN "user"
                                 ELSE last.req.role))
    /\ [][RegisterNotRefused /\ RegisterAddsOne]_vars

\* A register with an empty role succeeded.
C3_Witness == Registered(last) /\ last.req.role = "" /\ DOMAIN users # {}

\* The store holds a user with this email.
Taken(email) == \E k \in DOMAIN users : users[k].email = email

\* C4: a register request issued once a record with its email is stored is
\* never taken to the write, and it is answered 400 'User already exists'
\* with no token, no new record and every stored record as it was.
C4_SecondRegisterRefused ==
    [][/\ Len(pending') > Len(pending) => ~Taken(pending'[Len(pending')].email)
       /\ (/\ last'.route = "register"
           /\ pending' = pending
           /\ ~Falsy(last'.req.email) /\ ~Falsy(last'.req.password)
           /\ ~Falsy(last'.req.name)
           /\ Taken(last'.req.email)) =>
              /\ last'.status = 400
              /\ last'.body = [error |-> "User already exists"]
              /\ users' = users
              /\ issued' = issued]_vars

\* A second register for a stored email was refused.
C4_Witness ==
    /\ last.route = "register"
    /\ last.status = 400
    /\ last.body = [error |-> "User already exists"]
    /\ Taken(last.req.email)

\* C5: no two user records have the same email.
C5_EmailUnique ==
    \A k1 \in DOMAIN users, k2 \in DOMAIN users :
        users[k1].email = users[k2].email => k1 = k2

\* Every employee record but the one at id is as it was.
OthersUnchanged(id) ==
    \A k \in (DOMAIN employees \cup DOMAIN employees') \ {id} :
        /\ k \in DOMAIN employees
        /\ k \in DOMAIN employees'
        /\ employees'[k] = employees[k]

\* C6: after a successful PUT /api/employees/{id} every field the payload
\* names has the payload's value, every field of the record the payload does
\* not name has its previous value, and every other record is unchanged.
C6_PutMerges ==
    [][(last'.route = "putEmployee" /\ last'.status = 200) =>
          LET id == last'.req.id
              payload == last'.req.body
          IN /\ \A f \in DOMAIN payload :
                    id \in DOMAIN employees' /\ employees'[id][f] = payload[f]
             /\ id \in DOMAIN employees =>
                    \A f \in DOMAIN employees[id] \ DOMAIN payload :
                        /\ id \in DOMAIN employees'
                        /\ f \in DOMAIN employees'[id]
                        /\ employees'[id][f] = employees[id][f]
             /\ OthersUnchanged(id)]_vars

\* A PUT changed the department of a stored employee and its name is still there.
C6_Witness ==
    /\ last.route = "putEmployee"
    /\ last.status = 200
    /\ DOMAIN last.req.body = {"department", "role"}
    /\ last.req.id \in DOMAIN employees
    /\ "name" \in DOMAIN employees[last.req.id]
    /\ employees[last.req.id].department = "lab"
    /\ employees[last.req.id].name = "Bo"
    /\ Cardinality(DOMAIN employees) >= 2

\* C7: DELETE /api/employees/{id} with a valid token is answered
\* {success: true}, whether or not the id has a record.
C7_DeleteSucceeds ==
    (last.route = "deleteEmployee" /\ FreshToken(last.req.header, last.at)) =>
        /\ last.status = 200
        /\ last.body.success
        /\ last.req.id \notin DOMAIN employees

\* C8: POST /api/employees with the four fields and a valid token stores the
\* record under a generated id and returns that id.
C8_PostStores ==
    (last.route = "postEmployee" /\ FreshToken(last.req.header, last.at)) =>
        /\ last.status = 200
        /\ last.body.id \in DOMAIN employees
        /\ \A f \in {"name", "email", "role", "department"} :
               employees[last.body.id][f] = last.req.body[f]
        /\ "createdAt" \in DOMAIN employees[last.body.id]

\* The calendar date of a clock value.
DateOf(t) == t \div TicksPerDay

\* A successful attendance login writes the record of (employee, today) and
\* leaves every other attendance record as it was.
AttendanceOverwrites ==
    (last'.route = "postAttendance" /\ last'.status = 200) =>
        LET e == last'.req.employeeId
            d == DateOf(last'.at)
        IN /\ e \in DOMAIN attendance'
           /\ DOMAIN attendance' = DOMAIN attendance \cup {e}
           /\ DOMAIN attendance'[e] = DOMAIN ValueAt(attendance, e) \cup {d}
           /\ attendance'[e][d].loginTime = [date |-> d, time |-> last'.at % TicksPerDay]
           /\ \A x \in DOMAIN attendance : \A y \in DOMAIN attendance[x] :
                  (x # e \/ y # d) => attendance'[x][y] = attendance[x][y]

\* Every attendance record sits under the calendar date of its login time.
AttendanceByDate ==
    \A e \in DOMAIN attendance : \A d \in DOMAIN attendance[e] :
        /\ attendance[e][d].loginTime.date = d
        /\ attendance[e][d].status = "present"

\* GET /api/attendance/{employeeId} lists one entry per date logged.
AttendanceListed ==
    (last.route = "getAttendance" /\ last.status = 200) =>
        LET list == last.body.list
            node == ValueAt(attendance, last.req.employeeId)
        IN /\ Len(list) = Cardinality(DOMAIN node)
           /\ \A i \in 1..Len(list) :
                  /\ list[i].id \in DOMAIN node
                  /\ list[i].loginTime = node[list[i].id].loginTime
           /\ \A i \in 1..Len(list), j \in 1..Len(list) :
                  list[i].id = list[j].id => i = j

\* C9: attendance records are keyed by employee then by calendar date: the
\* store holds at most one record per (employee, date), a repeated login on
\* the same date overwrites loginTime, and GET lists one entry per date.
C9_AttendancePerDay ==
    /\ [](AttendanceByDate /\ AttendanceListed)
    /\ [][AttendanceOverwrites]_vars

\* An employee logged in twice on day 0 and once on day 1, and GET lists two entries.
C9_Witness ==
    /\ last.route = "getAttendance"
    /\ last.status = 200
    /\ Len(last.body.list) = 2
    /\ last.body.list[1].loginTime = [date |-> 0, time |-> 1]

\* Each request to a protected route gets one response and one outcome of the
\* gate: a 401 with no handler and no store call, or a hand-off with req.user.
GateOneOutcome ==
    last.route \in ProtectedRoutes =>
        /\ last.responses = 1
        /\ \/ /\ last.gate = "rejected"
              /\ last.status = 401
              /\ last.handler = 0
              /\ last.storeOps = 0
              /\ last.user = <<>>
           \/ /\ last.gate = "passed"
              /\ last.handler = 1
              /\ TokenIn(last.req.header) # <<>>
              /\ last.user = <<TokenIn(last.req.header)[1].payload>>

\* A request the gate answers leaves the store as it was.
GateShortCircuits ==
    (last'.route \in ProtectedRoutes /\ last'.gate = "rejected") =>
        UNCHANGED <<users, employees, attendance, nextKey>>

\* C10: when the gate answers 401 the handler is not invoked, no store
\* operation is issued and the store is unchanged; each request gets exactly
\* one outcome from the gate, a 401 or a hand-off with the decoded identity,
\* never both.
C10_GateShortCircuits == []GateOneOutcome /\ [][GateShortCircuits]_vars

\* The gate refused a write that carried an expired token.
C10_Witness ==
    /\ last.route \in {"postEmployee", "putEmployee", "deleteEmployee", "postAttendance"}
    /\ last.gate = "rejected"
    /\ TokenIn(last.req.header) # <<>>
    /\ Genuine(TokenIn(last.req.header)[1])
    /\ last.at >= TokenIn(last.req.header)[1].exp

\* A login or register body that lacks a field the route requires.
Absent(v) == v = Missing \/ v = ""
Incomplete(r) ==
    \/ r.route = "login" /\ (Absent(r.req.email) \/ Absent(r.req.password))
    \/ r.route = "register" /\
           (Absent(r.req.email) \/ Absent(r.req.password) \/ Absent(r.req.name))

\* An incomplete request is answered 400 without a token and without a call
\* to the store; every login or register answer is the only one of its request.
IncompleteRefused ==
    /\ last.route \in {"login", "register"} =>
           /\ last.responses = 1
           /\ last.handler = 1
           /\ last.status \in {200, 400, 401, 500}
           /\ last.status = 200 <=> "token" \in DOMAIN last.body
    /\ Incomplete(last) =>
           /\ last.status = 400
           /\ "error" \in DOMAIN last.body
           /\ last.storeOps = 0

\* No incomplete register is ever suspended on a write.
NoIncompletePending ==
    \A i \in 1..Len(pending) :
        ~Absent(pending[i].email) /\ ~Absent(pending[i].password) /\ ~Absent(pending[i].name)

\* The step that answers an incomplete request leaves the users, the
\* suspended writes and the tokens handed out as they were.
IncompleteLeavesStore ==
    (last' # last /\ Incomplete(last')) =>
        UNCHANGED <<users, nextKey, pending, issued, employees, attendance>>

\* C11: Register without email, password or name and Login without email or
\* password are answered 400, issue no token, make no store read or write and
\* leave Users unchanged; each Login or Register request gets exactly one
\* answer, a success or a failure.
C11_IncompleteInput ==
    /\ [](IncompleteRefused /\ NoIncompletePending)
    /\ [][IncompleteLeavesStore]_vars

\* A register without a name was refused while a user was stored and another
\* register was suspended.
C11_Witness ==
    /\ last.route = "register"
    /\ last.req.name = Missing
    /\ last.status = 400
    /\ DOMAIN users # {}
    /\ pending # <<>>

====
